---- MODULE Spec2Model ----
(***************************************************************************)
(* Model of the MercedesWebSocket client (src/lib/websocket.js): the       *)
(* connection lifecycle, the reconnect policy, the liveness watchdogs, the *)
(* dispatch of inbound frames and the command tracker.                     *)
(*                                                                         *)
(* One step of the model is one JavaScript macrotask (a caller's call, a   *)
(* socket event, a timer callback or the completion of an awaited external *)
(* promise) together with the promise continuations it triggers: the event *)
(* loop runs those to completion before the next macrotask.  The methods   *)
(* of the class are operators from a state record to a state record, so    *)
(* that a method calling another method is operator application.           *)
(***************************************************************************)
EXTENDS Integers, Sequences, FiniteSets, TLC

\* ---------------------------------------------------------------- bounds
MaxSockets == 2            \* socket objects alive at the same time
MaxCmds == 2               \* sendCommand calls alive at the same time
MaxReconnectAttempts == 4  \* cap of the reconnectAttempts counter
MaxInFlight == 1           \* _processMessage calls suspended at the same time

SockIds == 1..MaxSockets
CmdIds == 1..MaxCmds

\* ------------------------------------------------------ program constants
maxReconnectDelay == 120000
INITIAL_WATCHDOG_TIMEOUT == 30000
PING_INTERVAL == 32000
BaseReconnectDelay == 10000
BlockedMinDelay == 60000
NormalClosure == 1000

\* values of this.ws that are not a live socket object
Null == 0            \* this.ws = null
ClosedHandle == -1   \* this.ws references a socket whose readyState is CLOSED

VARIABLES
  ws,                  \* this.ws
  isConnecting,        \* this.isConnecting
  isStopping,          \* this.isStopping
  connectionState,     \* this.connectionState
  sessionId,           \* this.sessionId
  messageHandler,      \* this.messageHandler
  reconnectAttempts,   \* this.reconnectAttempts
  reconnectTimer,      \* this.reconnectTimer: 0 (null) or the delay it was armed with
  connectionWatchdog,  \* this.connectionWatchdog is armed
  pingWatchdog,        \* this.pingWatchdog is armed
  accountBlocked,      \* this.accountBlocked
  pendingCommands,     \* this.pendingCommands: the request ids it holds
  sock,                \* the connect attempts and their WebSocket objects
  cmd,                 \* the sendCommand calls and their promises
  delivered,           \* what the last step delivered to the caller of each call
  log,                 \* branches the last step has taken that leave no other trace
  sent,                \* the frames the last step has handed to ws.send, in order
  calls,               \* the calls of this.messageHandler the last step has made, in order
  dispatching,         \* the _processMessage calls that await the telemetry sink
  delays,              \* history: the delays of the reconnects since the last open
  started,             \* history: connect() has been called by the owner
  callerStopped        \* history: disconnect() has been called by the owner

vars == <<ws, isConnecting, isStopping, connectionState, sessionId,
          messageHandler,
          reconnectAttempts, reconnectTimer, connectionWatchdog, pingWatchdog,
          accountBlocked, pendingCommands, sock, cmd, delivered, log,
          sent, calls, dispatching, delays, started, callerStopped>>

\* ----------------------------------------------------------------- state
\* Nothing was delivered to the caller of a sendCommand call.
NoOutcome == [kind |-> "none", error |-> <<>>]

\* The current state as a record, and the assignment of a record to the
\* next state.
Cur ==
  [ws |-> ws, isConnecting |-> isConnecting, isStopping |-> isStopping,
   connectionState |-> connectionState, sessionId |-> sessionId,
   messageHandler |-> messageHandler,
   reconnectAttempts |-> reconnectAttempts, reconnectTimer |-> reconnectTimer,
   connectionWatchdog |-> connectionWatchdog, pingWatchdog |-> pingWatchdog,
   accountBlocked |-> accountBlocked, pendingCommands |-> pendingCommands,
   sock |-> sock, cmd |-> cmd,
   delivered |-> [c \in CmdIds |-> NoOutcome],
   log |-> {}, sent |-> <<>>, calls |-> <<>>, dispatching |-> dispatching,
   delays |-> delays]

Becomes(s) ==
  /\ ws' = s.ws
  /\ isConnecting' = s.isConnecting
  /\ isStopping' = s.isStopping
  /\ connectionState' = s.connectionState
  /\ sessionId' = s.sessionId
  /\ messageHandler' = s.messageHandler
  /\ reconnectAttempts' = s.reconnectAttempts
  /\ reconnectTimer' = s.reconnectTimer
  /\ connectionWatchdog' = s.connectionWatchdog
  /\ pingWatchdog' = s.pingWatchdog
  /\ accountBlocked' = s.accountBlocked
  /\ pendingCommands' = s.pendingCommands
  /\ sock' = s.sock
  /\ cmd' = s.cmd
  /\ delivered' = s.delivered
  /\ log' = s.log
  /\ sent' = s.sent
  /\ calls' = s.calls
  /\ dispatching' = s.dispatching
  /\ delays' = s.delays

\* Branches that are recorded in log: the early return of connect() with its
\* 'skipping connect request' line, the `continue` of the status loop for a
\* request id the tracker does not hold, the setTimeout calls that arm a
\* watchdog anew, the refusal of _sendMessage, the default case of the
\* switch of _processMessage and its catch block.
ConnectSkipped == "skipping connect request"
StatusUntracked == "status of untracked command"
ConnectionWatchdogStarted == "connection watchdog started"
PingWatchdogStarted == "ping watchdog started"
SendError == "Error sending message"
CannotSend == "Cannot send message - WebSocket not connected"
UnhandledType == "Unhandled message type"
ProcessingError == "Error processing message"

Logged(s, line) == [s EXCEPT !.log = @ \cup {line}]

\* crypto.randomUUID(): the identifiers are opaque, and no two calls return
\* the same one; the call of the constructor and a call made later.
RandomUUID == "uuid of the constructor"
FreshUUID == "uuid of a later call"

\* The headers of a socket that has not been created.
NoHeaders == [AppSessionId |-> "", XSessionId |-> "", XTrackingId |-> ""]

\* Variant of GetConnectionHeaders that draws the session headers anew.
GetConnectionHeaders_FreshSession(s) ==
  [AppSessionId |-> FreshUUID, XSessionId |-> FreshUUID,
   XTrackingId |-> FreshUUID]

\* _getConnectionHeaders after the access token has been returned: the
\* headers that identify the session and the attempt.
GetConnectionHeaders(s) ==
  [AppSessionId |-> s.sessionId, XSessionId |-> s.sessionId,
   XTrackingId |-> FreshUUID]

\* A slot of sock that holds no attempt and no socket object.
FreeSock == [st |-> "free", awaiter |-> 0, closeCode |-> 0,
             headers |-> NoHeaders]

\* A sendCommand slot that holds no call.
IdleCmd == [pc |-> "idle", timer |-> FALSE, settles |-> 0]

\* getConnectionState()
GetConnectionState(s) == s.connectionState

\* this.ws && this.ws.readyState === WebSocket.OPEN
IsConnected(s) == s.ws \in SockIds /\ s.sock[s.ws].st = "OPEN"

Min(a, b) == IF a < b THEN a ELSE b
Max(a, b) == IF a > b THEN a ELSE b

\* _sendMessage: the frame is handed to send() of the socket this.ws holds
\* when that socket is open; otherwise an error is logged and nothing is
\* transmitted.  A transmitted frame is recorded with the socket that took
\* it, its kind and its number (the request id of a command, the sequence
\* number of an acknowledgment).
SendMessage(s, kind, n) ==
  IF IsConnected(s)
  THEN [s EXCEPT !.sent = Append(@, [sock |-> s.ws, kind |-> kind, n |-> n])]
  ELSE Logged(s, CannotSend)

\* ------------------------------------------------------------- watchdogs
StopConnectionWatchdog(s) == [s EXCEPT !.connectionWatchdog = FALSE]

StartConnectionWatchdog(s) ==
  Logged([StopConnectionWatchdog(s) EXCEPT !.connectionWatchdog = TRUE],
         ConnectionWatchdogStarted)

ResetConnectionWatchdog(s) == StartConnectionWatchdog(s)

StopPingWatchdog(s) == [s EXCEPT !.pingWatchdog = FALSE]

StartPingWatchdog(s) ==
  Logged([StopPingWatchdog(s) EXCEPT !.pingWatchdog = TRUE],
         PingWatchdogStarted)

ResetPingWatchdog(s) == StartPingWatchdog(s)

StopWatchdogs(s) == StopPingWatchdog(StopConnectionWatchdog(s))

\* _sendPing: a transport-level ping on the open socket, then the ping
\* watchdog is restarted; nothing when the socket is not open.
SendPing(s) == IF IsConnected(s) THEN ResetPingWatchdog(s) ELSE s

\* -------------------------------------------------------- reconnect policy
\* Variant of ReconnectDelay whose backoff grows linearly.
ReconnectDelay_Linear(n, blocked) ==
  LET delay == Min(BaseReconnectDelay * n, maxReconnectDelay)
  IN IF blocked THEN Max(delay, BlockedMinDelay) ELSE delay

\* Variant of ReconnectDelay in which the floor of a blocked account
\* replaces the backoff.
ReconnectDelay_FloorOnly(n, blocked) ==
  LET delay == Min(BaseReconnectDelay * n * n, maxReconnectDelay)
  IN IF blocked THEN BlockedMinDelay ELSE delay

\* The delay computed in _scheduleReconnect for the n-th attempt.
ReconnectDelay(n, blocked) ==
  LET delay == Min(BaseReconnectDelay * n * n, maxReconnectDelay)
  IN IF blocked THEN Max(delay, BlockedMinDelay) ELSE delay

\* Variant of ScheduleReconnect that arms a timer although one is pending.
ScheduleReconnect_Rearm(s) ==
  IF s.isStopping
  THEN s
  ELSE [s EXCEPT !.reconnectAttempts = @ + 1,
                 !.reconnectTimer =
                     ReconnectDelay(s.reconnectAttempts + 1, s.accountBlocked),
                 !.delays =
                     Append(@, ReconnectDelay(s.reconnectAttempts + 1,
                                              s.accountBlocked))]

ScheduleReconnect(s) ==
  IF s.isStopping \/ s.reconnectTimer # 0
  THEN s
  ELSE [s EXCEPT !.reconnectAttempts = @ + 1,
                 !.reconnectTimer =
                     ReconnectDelay(s.reconnectAttempts + 1, s.accountBlocked),
                 !.delays =
                     Append(@, ReconnectDelay(s.reconnectAttempts + 1,
                                              s.accountBlocked))]

\* ------------------------------------------------------------ disconnect
\* ws.close(1000, ...) of the transport, called on a socket that is OPEN or
\* CONNECTING: the socket starts closing.
WsClose(socks, i) ==
  [socks EXCEPT ![i] = [@ EXCEPT !.st = "CLOSING",
                                 !.closeCode = NormalClosure]]

\* Variant of Disconnect that leaves a pending reconnect timer alone.
Disconnect_KeepsReconnectTimer(s) ==
  LET s1 == [s EXCEPT !.isStopping = TRUE]
      s2 == StopWatchdogs(s1)
      s3 == IF s2.ws = Null
            THEN s2
            ELSE [s2 EXCEPT
                    !.sock = IF s2.ws \in SockIds
                                /\ s2.sock[s2.ws].st \in {"OPEN", "CONNECTING"}
                             THEN WsClose(s2.sock, s2.ws)
                             ELSE s2.sock,
                    !.ws = Null]
  IN [s3 EXCEPT !.connectionState = "disconnected"]

\* Variant of Disconnect that leaves the connection state to the close
\* handler when there is a socket to close.
Disconnect_StateOnClose(s) ==
  LET s1 == [s EXCEPT !.isStopping = TRUE, !.reconnectTimer = 0]
      s2 == StopWatchdogs(s1)
  IN IF s2.ws = Null
     THEN [s2 EXCEPT !.connectionState = "disconnected"]
     ELSE [s2 EXCEPT
             !.sock = IF s2.ws \in SockIds
                         /\ s2.sock[s2.ws].st \in {"OPEN", "CONNECTING"}
                      THEN WsClose(s2.sock, s2.ws)
                      ELSE s2.sock,
             !.ws = Null]

Disconnect(s) ==
  LET s1 == [s EXCEPT !.isStopping = TRUE, !.reconnectTimer = 0]
      s2 == StopWatchdogs(s1)
      s3 == IF s2.ws = Null
            THEN s2
            ELSE [s2 EXCEPT
                    !.sock = IF s2.ws \in SockIds
                                /\ s2.sock[s2.ws].st \in {"OPEN", "CONNECTING"}
                             THEN WsClose(s2.sock, s2.ws)
                             ELSE s2.sock,
                    !.ws = Null]
  IN [s3 EXCEPT !.connectionState = "disconnected"]

HandleConnectionTimeout(s) == ScheduleReconnect(Disconnect(s))

\* --------------------------------------------------------- command tracker
\* resolve or reject of the promise of sendCommand call c is invoked: the
\* invocations are counted, and the outcome is delivered to the caller.
Settle(s, c, kind, error) ==
  [s EXCEPT !.cmd[c] = [@ EXCEPT !.pc = "done", !.settles = Min(@ + 1, 2)],
            !.delivered[c] = [kind |-> kind, error |-> error]]

\* STATE_MAP[stateCode] || 'UNKNOWN'
StateName(code) ==
  CASE code = 0 -> "UNKNOWN"
    [] code = 1 -> "INITIATED"
    [] code = 2 -> "ENQUEUED"
    [] code = 3 -> "PROCESSING"
    [] code = 4 -> "WAITING"
    [] code = 5 -> "FINISHED"
    [] code = 6 -> "FAILED"
    [] OTHER -> "UNKNOWN"

\* status.errors of a decoded status entry: absent, or a message and a code
\* of which the empty string stands for a value that is not provided.
NoErrors == [present |-> FALSE, message |-> "", code |-> ""]

\* Variant of FailedErrorMessage that leaves the error code out.
FailedErrorMessage_NoCode(errors) ==
  <<"Command failed">>
    \o (IF errors.present /\ errors.message # ""
        THEN <<": ", errors.message>> ELSE <<>>)

\* The text of the Error a FAILED status rejects with, as the sequence of
\* the pieces it is concatenated from.
FailedErrorMessage(errors) ==
  <<"Command failed">>
    \o (IF errors.present /\ errors.message # ""
        THEN <<": ", errors.message>> ELSE <<>>)
    \o (IF errors.present /\ errors.code # ""
        THEN <<" (", errors.code, ")">> ELSE <<>>)

TimeoutErrorMessage == <<"Command timeout - no response from vehicle">>

UnavailableErrorMessage == <<"WebSocket connection not available for command">>

\* Variant of HandleStatus that does not clear the timeout of the entry.
HandleStatus_KeepsTimeout(s, status) ==
  LET requestId == status.requestId
      state == StateName(status.state)
  IN IF requestId \notin s.pendingCommands
     THEN Logged(s, StatusUntracked)
     ELSE CASE state = "FINISHED" ->
                 [Settle(s, requestId, "resolved", <<>>)
                    EXCEPT !.pendingCommands = @ \ {requestId}]
            [] state = "FAILED" ->
                 [Settle(s, requestId, "failed",
                         FailedErrorMessage(status.errors))
                    EXCEPT !.pendingCommands = @ \ {requestId}]
            [] OTHER -> s

\* Variant of HandleStatus that keeps the entry of a FINISHED command.
HandleStatus_KeepsFinished(s, status) ==
  LET requestId == status.requestId
      state == StateName(status.state)
  IN IF requestId \notin s.pendingCommands
     THEN Logged(s, StatusUntracked)
     ELSE LET s1 == [s EXCEPT !.cmd[requestId].timer = FALSE]
          IN CASE state = "FINISHED" ->
                    Settle(s1, requestId, "resolved", <<>>)
               [] state = "FAILED" ->
                    [Settle(s1, requestId, "failed",
                            FailedErrorMessage(status.errors))
                       EXCEPT !.pendingCommands = @ \ {requestId}]
               [] OTHER -> s1

\* Variant of HandleStatus that settles the call of a terminal status also
\* when the tracker does not hold its request id.
HandleStatus_SettlesUntracked(s, status) ==
  LET requestId == status.requestId
      state == StateName(status.state)
  IN IF requestId \notin s.pendingCommands
     THEN IF requestId \in CmdIds /\ state \in {"FINISHED", "FAILED"}
          THEN Settle(Logged(s, StatusUntracked), requestId,
                      IF state = "FINISHED" THEN "resolved" ELSE "failed", <<>>)
          ELSE Logged(s, StatusUntracked)
     ELSE LET s1 == [s EXCEPT !.cmd[requestId].timer = FALSE]
          IN CASE state = "FINISHED" ->
                    [Settle(s1, requestId, "resolved", <<>>)
                       EXCEPT !.pendingCommands = @ \ {requestId}]
               [] state = "FAILED" ->
                    [Settle(s1, requestId, "failed",
                            FailedErrorMessage(status.errors))
                       EXCEPT !.pendingCommands = @ \ {requestId}]
               [] OTHER -> s1

\* The body of the loop of _handleCommandStatusUpdates for one status entry.
HandleStatus(s, status) ==
  LET requestId == status.requestId
      state == StateName(status.state)
  IN IF requestId \notin s.pendingCommands
     THEN Logged(s, StatusUntracked)
     ELSE LET s1 == [s EXCEPT !.cmd[requestId].timer = FALSE]
          IN CASE state = "FINISHED" ->
                    [Settle(s1, requestId, "resolved", <<>>)
                       EXCEPT !.pendingCommands = @ \ {requestId}]
               [] state = "FAILED" ->
                    [Settle(s1, requestId, "failed",
                            FailedErrorMessage(status.errors))
                       EXCEPT !.pendingCommands = @ \ {requestId}]
               [] OTHER -> s1

\* _handleCommandStatusUpdates over the status entries of a frame, in the
\* order in which the loops visit them.
RECURSIVE HandleCommandStatusUpdates(_, _)
HandleCommandStatusUpdates(s, updates) ==
  IF updates = <<>>
  THEN s
  ELSE HandleCommandStatusUpdates(HandleStatus(s, Head(updates)), Tail(updates))

\* Variant of Register that transmits the frame and leaves the timeout and
\* the tracker entry to a later step.
Register_SendsFirst(s, c) ==
  SendMessage([s EXCEPT !.cmd[c] = [@ EXCEPT !.pc = "pending"]], "command", c)

\* The promise executor of sendCommand: arm the timeout, track the command,
\* transmit the frame on the open socket.
Register(s, c) ==
  SendMessage([s EXCEPT !.cmd[c] = [@ EXCEPT !.pc = "pending", !.timer = TRUE],
                        !.pendingCommands = @ \cup {c}],
              "command", c)

\* The same when send() of the socket (or the serialisation of the frame)
\* throws: the catch block of _sendMessage logs the error, the promise
\* _sendMessage returns is fulfilled, and the catch callback of sendCommand
\* is not called.
RegisterSendThrows(s, c) ==
  Logged([s EXCEPT !.cmd[c] = [@ EXCEPT !.pc = "pending", !.timer = TRUE],
                   !.pendingCommands = @ \cup {c}],
         SendError)

\* Variant of CommandTimeoutFired that gives the connection up as well.
CommandTimeoutFired_Disconnects(s, c) ==
  Disconnect(Settle([s EXCEPT !.pendingCommands = @ \ {c}], c, "timeout",
                    TimeoutErrorMessage))

\* The callback of a command's timeout.
CommandTimeoutFired(s, c) ==
  Settle([s EXCEPT !.pendingCommands = @ \ {c}], c, "timeout",
         TimeoutErrorMessage)

\* sendCommand after its `await this.connect(...)`: the polling loop looks at
\* the socket at once, and again every 100 ms.
ResumeSendCommand(s, c) ==
  IF c = 0 THEN s
  ELSE IF IsConnected(s) THEN Register(s, c)
  ELSE [s EXCEPT !.cmd[c].pc = "polling"]

\* ---------------------------------------------------------------- connect
\* The slot the next connect attempt takes.
NextSock(s) ==
  CHOOSE i \in SockIds :
    /\ s.sock[i].st = "free"
    /\ \A j \in SockIds : j < i => s.sock[j].st # "free"

\* Variant of Connect that registers the handler before it looks at the
\* flags.
Connect_HandlerFirst(s, onDataReceived, c) ==
  IF s.isConnecting \/ s.isStopping
  THEN ResumeSendCommand(
         Logged([s EXCEPT !.messageHandler = onDataReceived], ConnectSkipped), c)
  ELSE [s EXCEPT !.messageHandler = onDataReceived,
                 !.isConnecting = TRUE,
                 !.isStopping = FALSE,
                 !.sock[NextSock(s)] =
                     [FreeSock EXCEPT !.st = "token", !.awaiter = c]]

\* connect(onDataReceived) up to its first suspension, called by sendCommand
\* call c (0: by another caller).  A skipped connect returns at once; an
\* attempt is left awaiting the access token.
Connect(s, onDataReceived, c) ==
  IF s.isConnecting \/ s.isStopping
  THEN ResumeSendCommand(Logged(s, ConnectSkipped), c)
  ELSE [s EXCEPT !.messageHandler = onDataReceived,
                 !.isConnecting = TRUE,
                 !.isStopping = FALSE,
                 !.sock[NextSock(s)] =
                     [FreeSock EXCEPT !.st = "token", !.awaiter = c]]

\* A connect attempt can be started (or connect is skipped).
CanConnect(s) ==
  s.isConnecting \/ s.isStopping \/ \E i \in SockIds : s.sock[i].st = "free"

\* Variant of ConnectFailed that leaves isConnecting set.
ConnectFailed_KeepsFlag(s, c) == ResumeSendCommand(ScheduleReconnect(s), c)

\* The catch block of connect, and the return of connect to its caller.
ConnectFailed(s, c) ==
  ResumeSendCommand(ScheduleReconnect([s EXCEPT !.isConnecting = FALSE]), c)

\* The 'open' handler of socket i, and the return of connect to its caller.
OnOpen(s, i) ==
  LET s1 == [s EXCEPT !.sock[i] = [@ EXCEPT !.st = "OPEN", !.awaiter = 0],
                      !.connectionState = "connected",
                      !.isConnecting = FALSE,
                      !.reconnectAttempts = 0,
                      !.accountBlocked = FALSE,
                      !.delays = <<>>]
  IN ResumeSendCommand(StartPingWatchdog(StartConnectionWatchdog(s1)),
                       s.sock[i].awaiter)

\* The 'error' handler up to its reject(error).
OnError(s, has429) ==
  IF has429 THEN [s EXCEPT !.accountBlocked = TRUE] ELSE s

\* Variant of OnClose that gives the tracked commands up: it cancels their
\* timeouts and empties the tracker.
OnClose_DropsCommands(s) ==
  LET s1 == StopWatchdogs([s EXCEPT !.connectionState = "disconnected",
                                    !.isConnecting = FALSE,
                                    !.cmd = [c \in CmdIds |->
                                               IF c \in s.pendingCommands
                                               THEN [@[c] EXCEPT !.timer = FALSE]
                                               ELSE @[c]],
                                    !.pendingCommands = {}])
  IN IF ~s1.isStopping THEN ScheduleReconnect(s1) ELSE s1

\* The 'close' handler.
OnClose(s) ==
  LET s1 == StopWatchdogs([s EXCEPT !.connectionState = "disconnected",
                                    !.isConnecting = FALSE])
  IN IF ~s1.isStopping THEN ScheduleReconnect(s1) ELSE s1

\* Socket i has emitted its close event: the object emits nothing any more.
ReleaseSock(s, i) ==
  [s EXCEPT !.sock[i] = FreeSock,
            !.ws = IF @ = i THEN ClosedHandle ELSE @,
            !.dispatching =
                [k \in 1..Len(@) |->
                   [@[k] EXCEPT !.sock = IF @ = i THEN ClosedHandle ELSE @]]]

\* The handshake of socket i has failed: the socket emits 'error' and then
\* 'close', the latter either in the same turn (before the rejected connect
\* continues in its catch block) or as the next event.  No close frame is
\* exchanged on a socket that has never been open, whatever code close()
\* was called with.
HandshakeFailed(s, i, has429, closeSync) ==
  LET s1 == OnError(s, has429)
      s2 == IF closeSync
            THEN ReleaseSock(OnClose(s1), i)
            ELSE [s1 EXCEPT !.sock[i] = [@ EXCEPT !.st = "CLOSING",
                                                  !.closeCode = 0,
                                                  !.awaiter = 0]]
  IN ConnectFailed(s2, s.sock[i].awaiter)

\* The socket whose handshake a disconnect() in state s aborts (0: none).
AbortedSock(s) ==
  IF s.ws \in SockIds /\ s.sock[s.ws].st = "CONNECTING" THEN s.ws ELSE 0

\* The turn of a caller of disconnect() has ended in state s: the socket a
\* it closed before the handshake completed reports the abort.
AfterClose(s, a, closeSync) ==
  IF a = 0 THEN s ELSE HandshakeFailed(s, a, FALSE, closeSync)

\* The callback of the reconnect timer up to its first suspension.
ReconnectTimerFired(s) ==
  LET s1 == [s EXCEPT !.reconnectTimer = 0]
  IN IF ~s1.isStopping THEN Connect(s1, s1.messageHandler, 0) ELSE s1

\* sendCommand(message, requestId) for call c up to its first suspension.
SendCommand(s, c) ==
  LET s0 == [s EXCEPT !.cmd[c] = [IdleCmd EXCEPT !.pc = "awaitConnect"]]
  IN IF IsConnected(s0)
     THEN Register(s0, c)
     ELSE IF ~s0.isConnecting
          THEN Connect(s0, s0.messageHandler, c)
          ELSE ResumeSendCommand(s0, c)

\* Variant of SendCommandUnavailable that leaves a tracker entry behind.
SendCommandUnavailable_Tracks(s, c) ==
  [s EXCEPT !.cmd[c].pc = "done",
            !.pendingCommands = @ \cup {c},
            !.delivered[c] = [kind |-> "unavailable",
                              error |-> UnavailableErrorMessage]]

\* sendCommand gives up after its bounded wait.
SendCommandUnavailable(s, c) ==
  [s EXCEPT !.cmd[c].pc = "done",
            !.delivered[c] = [kind |-> "unavailable",
                              error |-> UnavailableErrorMessage]]

\* ---------------------------------------------------------- inbound frames
\* Request ids of status entries: the tracked calls, and an id no call has.
UnknownId == 0

\* Decoded state codes: INITIATED, FINISHED, FAILED, and a code outside
\* STATE_MAP.
StateCodes == {1, 5, 6, 7}

ErrorsValues ==
  {NoErrors} \cup [present : {TRUE}, message : {"", "denied"}, code : {"", "42"}]

\* Status entries: errors accompany FAILED entries.
Statuses ==
  [requestId : CmdIds, state : StateCodes \ {6}, errors : {NoErrors}]
    \cup [requestId : CmdIds, state : {6}, errors : ErrorsValues]
    \cup [requestId : {UnknownId}, state : {5, 6}, errors : {NoErrors}]

\* Entries of the frames that carry two entries.
PairStatuses ==
  [requestId : CmdIds, state : {5, 6}, errors : {NoErrors}]

\* Sequence numbers of frames: 0 is what a frame without one decodes to.
SequenceNumbers == {0, 41}

\* The vehicles of a telemetry frame: none, or one.
\* The sub-updates of telemetry frames: the vehicle, the full/partial flag,
\* and whether handling the sub-update throws: in extractVehicleData, or in
\* the telemetry sink.
VepUpdates ==
  [vin : {"VIN1"}, fullUpdate : {TRUE}, throws : {"none", "extract", "handler"}]
    \cup [vin : {"VIN2"}, fullUpdate : {FALSE},
          throws : {"none", "extract", "handler"}]

VinLists ==
  {<<>>} \cup {<<v>> : v \in VepUpdates}
    \cup {p \in VepUpdates \X VepUpdates : p[1].vin # p[2].vin}

\* An inbound frame: the field of PushMessage's oneof that it sets, under the
\* name the decoded object has for it, and what the field holds.
Frame(field, sequenceNumber, updates, vins) ==
  [decodes |-> TRUE, field |-> field, sequenceNumber |-> sequenceNumber,
   updates |-> updates, vins |-> vins]

StatusFrame(sequenceNumber, updates) ==
  Frame("apptwinCommandStatusUpdatesByVin", sequenceNumber, updates, <<>>)

StatusFrames ==
  {StatusFrame(n, u) :
     n \in SequenceNumbers,
     u \in {<<e>> : e \in Statuses}
             \cup {<<a, b>> : a \in PairStatuses, b \in PairStatuses}}

TelemetryFrames ==
  {Frame("vepUpdates", n, <<>>, v) : n \in SequenceNumbers, v \in VinLists}

ServiceFrames ==
  {Frame(f, n, <<>>, <<>>) :
     f \in {"serviceStatusUpdates", "userDataUpdate"}, n \in SequenceNumbers}

OtherFrames ==
  {Frame(f, 0, <<>>, <<>>) :
     f \in {"assignedVehicles", "apptwinPendingCommandRequest", "debugMessage"}}

\* Frames that set a field of the oneof the client has no case for.
UnknownFrames ==
  {Frame("serviceStatusUpdatesByVin", n, <<>>, <<>>) : n \in SequenceNumbers}

\* A frame PushMessage.decode throws for.
Undecodable ==
  [decodes |-> FALSE, field |-> "", sequenceNumber |-> 0,
   updates |-> <<>>, vins |-> <<>>]

Frames ==
  StatusFrames \cup TelemetryFrames \cup ServiceFrames \cup OtherFrames
    \cup UnknownFrames \cup {Undecodable}

\* The frames that arrive: the server numbers its status frames (a frame for
\* a request id the client does not track also arrives without a number),
\* reports a failure with a message and a code or without errors, and lists
\* two entries in the order of their request ids; a telemetry frame is for
\* one vehicle, or for two of which the first makes the extraction throw, or
\* has no number and makes the sink throw.
ArrivingStatuses ==
  {e \in Statuses : e.errors.present => e.errors.message # "" /\ e.errors.code # ""}

ArrivingFrames ==
  {StatusFrame(n, <<e>>) : n \in SequenceNumbers \ {0}, e \in ArrivingStatuses}
    \cup {StatusFrame(n, p) :
            n \in SequenceNumbers \ {0},
            p \in {q \in PairStatuses \X PairStatuses :
                     q[1].requestId <= q[2].requestId}}
    \cup {StatusFrame(0, <<e>>) : e \in {x \in Statuses : x.requestId = UnknownId}}
    \cup {f \in TelemetryFrames :
            /\ \A k \in 1..Len(f.vins) : f.vins[k].vin = "VIN" \o ToString(k)
            /\ \/ f.sequenceNumber # 0 /\ Len(f.vins) = 1 /\ f.vins[1].throws = "none"
               \/ /\ f.sequenceNumber # 0 /\ Len(f.vins) = 2
                  /\ f.vins[1].throws = "extract" /\ f.vins[2].throws = "none"
               \/ f.sequenceNumber = 0 /\ Len(f.vins) = 1 /\ f.vins[1].throws = "handler"}
    \cup {f \in ServiceFrames \cup UnknownFrames : f.sequenceNumber # 0}
    \cup OtherFrames
    \cup {Undecodable}

\* parsePushMessage for a frame that decodes: the object has the field the
\* frame sets, and msg, which toObject sets to the name of that field and
\* the chain of checks then to the name the client uses.
ParsePushMessage(data) ==
  [field |-> data.field,
   value |-> [present |-> TRUE, sequenceNumber |-> data.sequenceNumber,
              updates |-> data.updates, vins |-> data.vins],
   msg |-> CASE data.field = "vepUpdates" -> "vepUpdates"
             [] data.field = "debugMessage" -> "debugMessage"
             [] data.field = "apptwinCommandStatusUpdatesByVin" ->
                  "apptwin_command_status_updates_by_vin"
             [] data.field = "assignedVehicles" -> "assigned_vehicles"
             [] data.field = "apptwinPendingCommandRequest" ->
                  "apptwin_pending_command_request"
             [] data.field = "serviceStatusUpdates" -> "service_status_updates"
             [] data.field = "userDataUpdate" -> "user_data_update"
             [] OTHER -> data.field]

\* message[key] of a decoded object: undefined for a field it does not have.
Undefined ==
  [present |-> FALSE, sequenceNumber |-> 0, updates |-> <<>>, vins |-> <<>>]

Get(message, key) ==
  IF message.field = key THEN message.value ELSE Undefined

\* The acknowledgments: none, the two fixed buffers, and those built from a
\* sequence number.
NoAck == [kind |-> "none", n |-> 0]
Ack(kind, n) == [kind |-> kind, n |-> n]

\* The telemetry sink is called for each vehicle of a telemetry frame.
HandlerCalled == "messageHandler called"

UpdateError == "Error processing update for VIN"

\* extractVehicleData: the attribute map of a sub-update.
ExtractVehicleData(vepUpdate) ==
  [vin |-> vepUpdate.vin, full_update |-> vepUpdate.fullUpdate]

\* The body of the loop over the vehicles for one sub-update, with its
\* try/catch.
HandleVepUpdate(s, vepUpdate) ==
  IF vepUpdate.throws = "extract"
  THEN Logged(s, UpdateError)
  ELSE IF s.messageHandler = "null"
  THEN s
  ELSE LET s1 == Logged([s EXCEPT !.calls =
                            Append(@, [vin |-> vepUpdate.vin,
                                       vehicleData |-> ExtractVehicleData(vepUpdate),
                                       fullUpdate |-> vepUpdate.fullUpdate])],
                        HandlerCalled)
       IN IF vepUpdate.throws = "handler"
          THEN Logged(s1, UpdateError)
          ELSE s1

\* Variant of CallMessageHandler whose loop ends with the first sub-update
\* that throws.
RECURSIVE CallMessageHandler_StopsAtError(_, _)
CallMessageHandler_StopsAtError(s, vins) ==
  IF vins = <<>>
  THEN s
  ELSE IF Head(vins).throws # "none"
  THEN HandleVepUpdate(s, Head(vins))
  ELSE CallMessageHandler_StopsAtError(HandleVepUpdate(s, Head(vins)), Tail(vins))

\* The loop over the vehicles of a telemetry frame.
RECURSIVE CallMessageHandler(_, _)
CallMessageHandler(s, vins) ==
  IF vins = <<>>
  THEN s
  ELSE CallMessageHandler(HandleVepUpdate(s, Head(vins)), Tail(vins))

\* The acknowledgment the switch of _processMessage constructs.
AckMessage(message) ==
  LET vep == Get(message, "vepUpdates")
      status == Get(message, "apptwinCommandStatusUpdatesByVin")
      service == Get(message, "service_status_updates")
      user == Get(message, "user_data_update")
  IN CASE message.msg = "vepUpdates" ->
            IF vep.present /\ vep.sequenceNumber # 0
            THEN Ack("acknowledgeVepUpdatesByVin", vep.sequenceNumber)
            ELSE NoAck
       [] message.msg = "assigned_vehicles" -> Ack("ba0100", 0)
       [] message.msg = "apptwin_pending_command_request" -> Ack("aa0100", 0)
       [] message.msg = "apptwin_command_status_updates_by_vin" ->
            IF status.sequenceNumber # 0
            THEN Ack("acknowledgeApptwinCommandStatusUpdateByVin",
                     status.sequenceNumber)
            ELSE NoAck
       [] message.msg = "service_status_updates" ->
            IF service.present /\ service.sequenceNumber # 0
            THEN Ack("acknowledgeServiceStatusUpdate", service.sequenceNumber)
            ELSE NoAck
       [] message.msg = "user_data_update" ->
            IF user.present /\ user.sequenceNumber # 0
            THEN Ack("acknowledgeUserDataUpdate", user.sequenceNumber)
            ELSE NoAck
       [] OTHER -> NoAck

\* What the switch does before the acknowledgment is sent.
HandleMessage(s, message) ==
  CASE message.msg = "vepUpdates" ->
         CallMessageHandler(s, Get(message, "vepUpdates").vins)
    [] message.msg = "apptwin_command_status_updates_by_vin" ->
         HandleCommandStatusUpdates(
           s, Get(message, "apptwinCommandStatusUpdatesByVin").updates)
    [] message.msg \in {"assigned_vehicles", "apptwin_pending_command_request",
                        "service_status_updates", "user_data_update",
                        "debugMessage"} -> s
    [] OTHER -> Logged(s, UnhandledType)

\* Variant of SendAck that transmits whatever the switch has left.
SendAck_Always(s, ack) == SendMessage(s, ack.kind, ack.n)

SendAck(s, ack) ==
  IF ack.kind # "none" THEN SendMessage(s, ack.kind, ack.n) ELSE s

\* Variant of ProcessMessage that gives the connection up when a frame does
\* not decode.
ProcessMessage_GivesUp(s, data) ==
  IF ~data.decodes
  THEN Logged(ScheduleReconnect(s), ProcessingError)
  ELSE LET message == ParsePushMessage(data)
       IN SendAck(HandleMessage(s, message), AckMessage(message))

\* _processMessage: a frame that does not decode is dropped in the catch
\* block.
ProcessMessage(s, data) ==
  IF ~data.decodes
  THEN Logged(s, ProcessingError)
  ELSE LET message == ParsePushMessage(data)
       IN SendAck(HandleMessage(s, message), AckMessage(message))

\* _processMessage for a telemetry frame of socket i whose sink does not
\* return at once: the call is suspended at `await this.messageHandler(...)`,
\* with the acknowledgment it will construct when the loop is through.
SuspendMessage(s, i, data) ==
  LET message == ParsePushMessage(data)
  IN [CallMessageHandler(s, Get(message, "vepUpdates").vins)
        EXCEPT !.dispatching =
                 Append(@, [sock |-> i, ack |-> AckMessage(message)])]

\* The sink has returned (or thrown) to the k-th suspended call: the call
\* sends its acknowledgment and ends.
ResumeMessage(s, k) ==
  SendAck([s EXCEPT !.dispatching =
                      [j \in 1..(Len(@) - 1) |-> IF j < k THEN @[j] ELSE @[j + 1]]],
          s.dispatching[k].ack)

\* Variant of OnMessage that restarts the ping watchdog only.
OnMessage_PingOnly(s, message) ==
  ProcessMessage(ResetPingWatchdog(s), message)

\* The 'message' handler.
OnMessage(s, message) ==
  ProcessMessage(ResetPingWatchdog(ResetConnectionWatchdog(s)), message)

\* The 'message' handler for a telemetry frame whose sink is slow.
OnMessageSlow(s, i, message) ==
  SuspendMessage(ResetPingWatchdog(ResetConnectionWatchdog(s)), i, message)

\* ------------------------------------------------------------------ steps
Init ==
  /\ ws = Null
  /\ isConnecting = FALSE
  /\ isStopping = FALSE
  /\ connectionState = "disconnected"
  /\ sessionId = RandomUUID
  /\ messageHandler = "null"
  /\ reconnectAttempts = 0
  /\ reconnectTimer = 0
  /\ connectionWatchdog = FALSE
  /\ pingWatchdog = FALSE
  /\ accountBlocked = FALSE
  /\ pendingCommands = {}
  /\ sock = [i \in SockIds |-> FreeSock]
  /\ cmd = [c \in CmdIds |-> IdleCmd]
  /\ delivered = [c \in CmdIds |-> NoOutcome]
  /\ log = {}
  /\ sent = <<>>
  /\ calls = <<>>
  /\ dispatching = <<>>
  /\ delays = <<>>
  /\ started = FALSE
  /\ callerStopped = FALSE

\* A call whose promise is settled, whose timeout is not armed and whose
\* request id is not tracked can be reached by nothing any more: its slot is
\* free for the next call.
Retire(s) ==
  [s EXCEPT !.cmd = [c \in CmdIds |->
                       IF /\ s.cmd[c].pc = "done"
                          /\ ~s.cmd[c].timer
                          /\ c \notin s.pendingCommands
                       THEN IdleCmd
                       ELSE s.cmd[c]]]

\* Socket objects and sendCommand calls are told apart by their state and by
\* the references to them, not by the number of their slot: the slots are
\* kept in the order of the keys below (this.ws and the awaiters follow), so
\* that a state has one representation.
SockKey(s, i) ==
  LET rank == CASE s.sock[i].st = "free" -> 0
                [] s.sock[i].st = "token" -> 1
                [] s.sock[i].st = "CONNECTING" -> 2
                [] s.sock[i].st = "OPEN" -> 3
                [] s.sock[i].st = "CLOSING" -> 4
  IN 8 * rank + 4 * (IF s.sock[i].awaiter # 0 THEN 1 ELSE 0)
       + 2 * (IF s.sock[i].closeCode # 0 THEN 1 ELSE 0)
       + (IF s.ws = i THEN 1 ELSE 0)
       + (IF s.sent = <<>> THEN 0
          ELSE 64 * Cardinality({k \in 1..Len(s.sent) : s.sent[k].sock = i}))
       + (IF s.dispatching = <<>> THEN 0
          ELSE 256 * Cardinality({k \in 1..Len(s.dispatching) :
                                    s.dispatching[k].sock = i}))

CmdKey(s, c) ==
  LET rank == CASE s.cmd[c].pc = "idle" -> 0
                [] s.cmd[c].pc = "awaitConnect" -> 1
                [] s.cmd[c].pc = "polling" -> 2
                [] s.cmd[c].pc = "pending" -> 3
                [] s.cmd[c].pc = "done" -> 4
      kind == CASE s.delivered[c].kind = "none" -> 0
                [] s.delivered[c].kind = "resolved" -> 1
                [] s.delivered[c].kind = "failed" -> 2
                [] s.delivered[c].kind = "timeout" -> 3
                [] s.delivered[c].kind = "unavailable" -> 4
  IN 420 * rank
       + 210 * (IF c \in s.pendingCommands THEN 1 ELSE 0)
       + 105 * (IF s.cmd[c].timer THEN 1 ELSE 0)
       + 35 * s.cmd[c].settles
       + 7 * kind
       + Len(s.delivered[c].error)
       + (IF s.sent = <<>> THEN 0
          ELSE 4200 * Cardinality({k \in 1..Len(s.sent) :
                                     s.sent[k].kind = "command" /\ s.sent[k].n = c}))

Reorder(s, skey) ==
  LET p == CHOOSE f \in Permutations(SockIds) :
             \A i \in 1..(MaxSockets - 1) : skey[f[i]] >= skey[f[i + 1]]
      pos(i) == CHOOSE k \in SockIds : p[k] = i
      awaitedAt(c) ==
        IF \E i \in SockIds : s.sock[i].awaiter = c
        THEN pos(CHOOSE i \in SockIds : s.sock[i].awaiter = c)
        ELSE 0
      key == [c \in CmdIds |-> (MaxSockets + 1) * CmdKey(s, c) + awaitedAt(c)]
      q == CHOOSE f \in Permutations(CmdIds) :
             \A c \in 1..(MaxCmds - 1) : key[f[c]] >= key[f[c + 1]]
      cpos(c) == CHOOSE k \in CmdIds : q[k] = c
  IN [s EXCEPT
        !.sock = [k \in SockIds |->
                    [s.sock[p[k]] EXCEPT !.awaiter = IF @ = 0 THEN 0
                                                     ELSE cpos(@)]],
        !.ws = IF s.ws \in SockIds THEN pos(s.ws) ELSE s.ws,
        !.cmd = [k \in CmdIds |-> s.cmd[q[k]]],
        !.pendingCommands = {cpos(c) : c \in s.pendingCommands},
        !.delivered = [k \in CmdIds |-> s.delivered[q[k]]],
        !.dispatching = [k \in 1..Len(s.dispatching) |->
                           [s.dispatching[k] EXCEPT
                              !.sock = IF @ \in SockIds THEN pos(@) ELSE @]],
        !.sent = [k \in 1..Len(s.sent) |->
                    [s.sent[k] EXCEPT
                       !.sock = pos(@),
                       !.n = IF s.sent[k].kind = "command" THEN cpos(@) ELSE @]]]

\* A state whose slots are in order already is its own representation.
Canonical(s) ==
  LET skey == [i \in SockIds |-> SockKey(s, i)]
      awaitedAt(c) ==
        IF \E i \in SockIds : s.sock[i].awaiter = c
        THEN CHOOSE i \in SockIds : s.sock[i].awaiter = c
        ELSE 0
      key == [c \in CmdIds |-> (MaxSockets + 1) * CmdKey(s, c) + awaitedAt(c)]
  IN IF /\ \A i \in 1..(MaxSockets - 1) : skey[i] >= skey[i + 1]
        /\ \A c \in 1..(MaxCmds - 1) : key[c] >= key[c + 1]
     THEN s
     ELSE Reorder(s, skey)

\* Socket i has emitted 'error': its 'close' event is the next event of the
\* program, before any timer or any input.
CloseDue(i) == sock[i].st = "CLOSING" /\ sock[i].closeCode = 0

\* The next state is s; the reconnect counter stays within the bound.
StepNow(s) ==
  /\ s.reconnectAttempts <= MaxReconnectAttempts
  /\ Becomes(Canonical(Retire(s)))

\* The same for the events that wait for a due 'close' event.
Step(s) ==
  /\ \A i \in SockIds : ~CloseDue(i)
  /\ StepNow(s)

\* The owner connects the client it has just constructed.
CallConnect ==
  /\ ~started
  /\ started' = TRUE
  /\ Step(Connect(Cur, "onDataReceived", 0))
  /\ UNCHANGED callerStopped

\* The owner sends a command with a fresh request id.
CallSendCommand(c) ==
  /\ started /\ ~callerStopped
  /\ cmd[c].pc = "idle"
  /\ CanConnect(Cur)
  /\ Step(SendCommand(Cur, c))
  /\ UNCHANGED <<started, callerStopped>>

\* The owner disconnects.
CallDisconnect(closeSync) ==
  /\ started
  /\ callerStopped' = TRUE
  /\ closeSync \/ AbortedSock(Cur) # 0
  /\ Step(AfterClose(Disconnect(Cur), AbortedSock(Cur), closeSync))
  /\ UNCHANGED started

\* getAccessToken has returned: the socket of attempt i is created.
TokenReady(i) ==
  /\ sock[i].st = "token"
  /\ Step([Cur EXCEPT !.sock[i] = [@ EXCEPT !.st = "CONNECTING",
                                          !.headers = GetConnectionHeaders(Cur)],
                      !.ws = i])
  /\ UNCHANGED <<started, callerStopped>>

\* getAccessToken (or the socket constructor) has thrown in attempt i.
AttemptFailed(i) ==
  /\ sock[i].st = "token"
  /\ Step(ConnectFailed([Cur EXCEPT !.sock[i] = FreeSock], sock[i].awaiter))
  /\ UNCHANGED <<started, callerStopped>>

\* The handshake of socket i has succeeded.
SocketOpen(i) ==
  /\ sock[i].st = "CONNECTING"
  /\ Step(OnOpen(Cur, i))
  /\ UNCHANGED <<started, callerStopped>>

\* The handshake of socket i has failed.
HandshakeError(i, has429, closeSync) ==
  /\ sock[i].st = "CONNECTING"
  /\ Step(HandshakeFailed(Cur, i, has429, closeSync))
  /\ UNCHANGED <<started, callerStopped>>

\* The open socket i has failed: it emits 'error' and closes.
SocketError(i) ==
  /\ sock[i].st = "OPEN"
  /\ Step(OnError([Cur EXCEPT !.sock[i].st = "CLOSING"], FALSE))
  /\ UNCHANGED <<started, callerStopped>>

\* Socket i emits 'close'.
SocketClose(i) ==
  /\ sock[i].st \in {"OPEN", "CLOSING"}
  /\ CloseDue(i) \/ \A j \in SockIds : ~CloseDue(j)
  /\ StepNow(ReleaseSock(OnClose(Cur), i))
  /\ UNCHANGED <<started, callerStopped>>

\* The request ids the server can refer to: those of the commands in the
\* tracker; every other id (of no call, of a call that is not registered yet,
\* of a call that has been settled or has timed out) is like UnknownId.
KnownIds == pendingCommands \cup {UnknownId}

\* Socket i emits the frames it receives: it is open, or close() has been
\* called on it and the closing handshake is not complete yet, so that the
\* frames the server has sent before it answers the close still arrive.
Receiving(i) ==
  \/ sock[i].st = "OPEN"
  \/ sock[i].st = "CLOSING" /\ sock[i].closeCode = NormalClosure

\* A frame arrives on socket i.
Message(i, message) ==
  /\ Receiving(i)
  /\ \A k \in 1..Len(message.updates) : message.updates[k].requestId \in KnownIds
  /\ Step(OnMessage(Cur, message))
  /\ UNCHANGED <<started, callerStopped>>

\* A pong frame arrives on the open socket i: the 'pong' handler.  The
\* handler belongs to the socket it was registered on, but it restarts the
\* client's ping watchdog whichever socket this.ws holds.
OnPong(s) == ResetPingWatchdog(s)

Pong(i) ==
  /\ sock[i].st = "OPEN"
  /\ Step(OnPong(Cur))
  /\ UNCHANGED <<started, callerStopped>>

\* The connection watchdog expires.
ConnectionWatchdogFire(closeSync) ==
  /\ connectionWatchdog
  /\ closeSync \/ AbortedSock(Cur) # 0
  /\ Step(AfterClose(
            HandleConnectionTimeout([Cur EXCEPT !.connectionWatchdog = FALSE]),
            AbortedSock(Cur), closeSync))
  /\ UNCHANGED <<started, callerStopped>>

\* The ping watchdog expires.  Both watchdogs are restarted together and the
\* ping watchdog alone later, so an armed connection watchdog expires first
\* unless the ping interval is the shorter one.
PingWatchdogFire ==
  /\ pingWatchdog
  /\ ~connectionWatchdog \/ PING_INTERVAL < INITIAL_WATCHDOG_TIMEOUT
  /\ Step(SendPing([Cur EXCEPT !.pingWatchdog = FALSE]))
  /\ UNCHANGED <<started, callerStopped>>

\* The reconnect timer expires.
ReconnectTimerFire ==
  /\ reconnectTimer # 0
  /\ CanConnect([Cur EXCEPT !.reconnectTimer = 0])
  /\ Step(ReconnectTimerFired(Cur))
  /\ UNCHANGED <<started, callerStopped>>

\* The timeout of command c expires.
CommandTimeoutFire(c) ==
  /\ cmd[c].timer
  /\ Step(CommandTimeoutFired([Cur EXCEPT !.cmd[c].timer = FALSE], c))
  /\ UNCHANGED <<started, callerStopped>>

\* A poll of the waiting sendCommand call c finds the socket open.
PollOpen(c) ==
  /\ cmd[c].pc = "polling"
  /\ IsConnected(Cur)
  /\ Step(Register(Cur, c))
  /\ UNCHANGED <<started, callerStopped>>

\* The last poll of the waiting sendCommand call c finds no open socket.
PollGiveUp(c) ==
  /\ cmd[c].pc = "polling"
  /\ ~IsConnected(Cur)
  /\ Step(SendCommandUnavailable(Cur, c))
  /\ UNCHANGED <<started, callerStopped>>

Next ==
  \/ CallConnect
  \/ \E c \in CmdIds : CallSendCommand(c)
  \/ \E closeSync \in BOOLEAN : CallDisconnect(closeSync)
  \/ \E i \in SockIds : TokenReady(i)
  \/ \E i \in SockIds : AttemptFailed(i)
  \/ \E i \in SockIds : SocketOpen(i)
  \/ \E i \in SockIds, has429 \in BOOLEAN, closeSync \in BOOLEAN :
       HandshakeError(i, has429, closeSync)
  \/ \E i \in SockIds : SocketError(i)
  \/ \E i \in SockIds : SocketClose(i)
  \/ \E i \in SockIds, message \in ArrivingFrames : Message(i, message)
  \/ \E i \in SockIds : Pong(i)
  \/ \E closeSync \in BOOLEAN : ConnectionWatchdogFire(closeSync)
  \/ PingWatchdogFire
  \/ ReconnectTimerFire
  \/ \E c \in CmdIds : CommandTimeoutFire(c)
  \/ \E c \in CmdIds : PollOpen(c)
  \/ \E c \in CmdIds : PollGiveUp(c)

Spec == Init /\ [][Next]_vars

\* The telemetry sink is the owner's callback.  In Spec it returns at once;
\* the steps below are those of a sink that takes its time: the frame is
\* handled up to the call of the sink, and the rest follows when the sink
\* has returned.  (The rest of a frame without a sequence number is empty.)
MessageSlow(i, message) ==
  /\ Receiving(i)
  /\ Len(message.vins) = 1 /\ message.vins[1].throws = "none"
  /\ messageHandler # "null"
  /\ message.sequenceNumber # 0
  /\ Len(dispatching) < MaxInFlight
  /\ Step(OnMessageSlow(Cur, i, message))
  /\ UNCHANGED <<started, callerStopped>>

HandlerReturns(k) ==
  /\ k <= Len(dispatching)
  /\ Step(ResumeMessage(Cur, k))
  /\ UNCHANGED <<started, callerStopped>>

DispatchNext ==
  \/ Next
  \/ \E i \in SockIds, message \in ArrivingFrames \cap TelemetryFrames :
       MessageSlow(i, message)
  \/ \E k \in 1..MaxInFlight : HandlerReturns(k)

DispatchSpec == Init /\ [][DispatchNext]_vars

\* ================================================================ claims
SocketsInUse == {i \in SockIds : sock[i].st \in {"CONNECTING", "OPEN"}}

OpenSockets == {i \in SockIds : sock[i].st = "OPEN"}

\* C1: when the connection watchdog expires on an open connection (the
\* owner has not disconnected), a reconnect is scheduled: after
\* _handleConnectionTimeout has run, a reconnect timer is pending.
C1_WatchdogSchedulesReconnect ==
  [][(/\ ~callerStopped
      /\ IsConnected(Cur)
      /\ \E closeSync \in BOOLEAN : ConnectionWatchdogFire(closeSync))
       => reconnectTimer' # 0]_vars

\* C2: a registered command that receives no terminal status is rejected by
\* its timeout and removed, whatever other frames arrive: as long as its
\* entry is in the tracker its timeout stays armed, so that no entry
\* outlives its timeout.
C2_TrackedCommandHasTimeout ==
  \A c \in pendingCommands : cmd[c].timer

\* C3: at most one of the outcomes of a sendCommand call (resolve on
\* FINISHED, reject on FAILED, reject on timeout) is delivered: resolve and
\* reject are invoked at most once per call, and a delivered outcome leaves
\* neither an armed timeout nor a tracker entry that could deliver another.
C3_AtMostOneOutcome ==
  \A c \in CmdIds :
    /\ cmd[c].settles <= 1
    /\ delivered[c].kind \in {"resolved", "failed", "timeout"}
         => c \notin pendingCommands /\ ~cmd[c].timer

\* C3 witness: a call has just been settled by a status frame while
\* another call is still tracked with its timeout armed.
C3_Witness ==
  \E c, d \in CmdIds :
    /\ delivered[c].kind \in {"resolved", "failed"}
    /\ d \in pendingCommands /\ cmd[d].timer

\* C4: at most one socket of the client is connecting or open.
C4_AtMostOneSocket == Cardinality(SocketsInUse) <= 1

\* C5: unless the owner has called disconnect(), the client does not come
\* to rest disconnected: when no socket object is left (none open, none
\* connecting, none still to report its close), a connect attempt is in
\* flight or a reconnect timer is pending.
C5_NeverRestsDisconnected ==
  (started /\ ~callerStopped)
    => \/ \E i \in SockIds : sock[i].st # "free"
       \/ reconnectTimer # 0

\* C6: once the owner has called disconnect(), no socket of the client is
\* open and neither a watchdog nor the reconnect timer is armed.
C6_NothingAfterDisconnect ==
  callerStopped
    => /\ OpenSockets = {}
       /\ ~connectionWatchdog /\ ~pingWatchdog
       /\ reconnectTimer = 0

\* C7: immediately after disconnect() returns, the deliberate-shutdown flag
\* is set, no reconnect timer is pending, both watchdogs are stopped, the
\* socket (if it was open or connecting) has been asked to close with the
\* normal closure code 1000, the socket handle is released and
\* getConnectionState() returns 'disconnected'.
C7_AfterDisconnect ==
  started =>
    LET s == Disconnect(Cur)
    IN /\ s.isStopping
       /\ s.reconnectTimer = 0
       /\ ~s.connectionWatchdog /\ ~s.pingWatchdog
       /\ s.ws = Null
       /\ s.connectionState = "disconnected"
       /\ \A i \in SockIds :
            s.sock[i] = IF i = ws /\ sock[i].st \in {"OPEN", "CONNECTING"}
                        THEN [sock[i] EXCEPT !.st = "CLOSING",
                                             !.closeCode = NormalClosure]
                        ELSE sock[i]

\* C7 witness: the owner has disconnected a client whose socket was open and
\* whose watchdogs were armed; the socket is closing with code 1000.
C7_Witness ==
  /\ callerStopped /\ isStopping /\ ws = Null
  /\ connectionState = "disconnected"
  /\ reconnectTimer = 0 /\ ~connectionWatchdog /\ ~pingWatchdog
  /\ \E i \in SockIds :
       sock[i].st = "CLOSING" /\ sock[i].closeCode = NormalClosure

\* C8: disconnect() is idempotent: from every reachable state, a second
\* call leaves the state the first call has left.
C8_DisconnectIdempotent ==
  started => Disconnect(Disconnect(Cur)) = Disconnect(Cur)

\* C8 witness: disconnect() has been called on a client with a socket, and
\* a further call changes nothing.
C8_Witness ==
  /\ callerStopped
  /\ \E i \in SockIds : sock[i].closeCode = NormalClosure
  /\ Disconnect(Cur) = Cur

\* The state codes of the terminal states.
FinishedCode == 5
FailedCode == 6

\* The first entry of a frame's status entries that is terminal for request
\* id r (0: none).
FirstTerminal(updates, r) ==
  LET ks == {k \in 1..Len(updates) :
               /\ updates[k].requestId = r
               /\ updates[k].state \in {FinishedCode, FailedCode}}
  IN IF ks = {} THEN 0 ELSE CHOOSE k \in ks : \A j \in ks : k <= j

\* C9: a status frame that carries FINISHED for a tracked request id
\* resolves the promise of its sendCommand call and removes the entry.
C9_FinishedResolves ==
  \A f \in StatusFrames, r \in pendingCommands :
    LET k == FirstTerminal(f.updates, r)
        s == OnMessage(Cur, f)
    IN (OpenSockets # {} /\ k # 0 /\ f.updates[k].state = FinishedCode)
         => /\ s.delivered[r] = [kind |-> "resolved", error |-> <<>>]
            /\ s.cmd[r].settles = 1
            /\ r \notin s.pendingCommands

\* C9 witness: a FINISHED status has just resolved a call.
C9_Witness ==
  \E c \in CmdIds :
    delivered[c].kind = "resolved" /\ c \notin pendingCommands

\* A piece occurs in a composed text.
Contains(text, piece) == \E k \in 1..Len(text) : text[k] = piece

\* C10: a status frame that carries FAILED for a tracked request id rejects
\* the promise with an error whose message contains the frame's error
\* message and error code when they are provided, and removes the entry.
C10_FailedRejects ==
  \A f \in StatusFrames, r \in pendingCommands :
    LET k == FirstTerminal(f.updates, r)
        s == OnMessage(Cur, f)
        e == f.updates[k].errors
    IN (OpenSockets # {} /\ k # 0 /\ f.updates[k].state = FailedCode)
         => /\ s.delivered[r].kind = "failed"
            /\ Contains(s.delivered[r].error, "Command failed")
            /\ (e.present /\ e.message # "")
                 => Contains(s.delivered[r].error, e.message)
            /\ (e.present /\ e.code # "")
                 => Contains(s.delivered[r].error, e.code)
            /\ (e.present /\ e.message = "denied" /\ e.code = "42")
                 => s.delivered[r].error
                      = <<"Command failed", ": ", "denied", " (", "42", ")">>
            /\ r \notin s.pendingCommands

\* C10 witness: a FAILED status with message 'denied' and code '42' has just
\* rejected a call.
C10_Witness ==
  \E c \in CmdIds :
    /\ delivered[c] = [kind |-> "failed",
                       error |-> <<"Command failed", ": ", "denied",
                                   " (", "42", ")">>]
    /\ c \notin pendingCommands

\* Status entries of every shape: each request id, each state code of
\* STATE_MAP and one outside it, with and without error details.
AllStatuses ==
  [requestId : CmdIds \cup {UnknownId}, state : 0..7, errors : ErrorsValues]

\* Every entry of the frame references a request id the tracker does not hold.
AllUntracked(message) ==
  \A k \in 1..Len(message.updates) :
    message.updates[k].requestId \notin pendingCommands

\* C11: a status entry for a request id that is not in the tracker (never
\* registered, already settled or already timed out) changes nothing: no
\* tracker entry, no timer, no promise of any call, no other field of the
\* client; only the skipped entry is recorded.  The same holds for a whole
\* frame of such entries.
C11_UntrackedStatusIgnored ==
  /\ \A status \in AllStatuses :
       status.requestId \notin pendingCommands
         => HandleStatus(Cur, status) = Logged(Cur, StatusUntracked)
  /\ \A message \in StatusFrames :
       AllUntracked(message)
         => HandleMessage(Cur, ParsePushMessage(message))
              = Logged(Cur, StatusUntracked)

\* C11 witness: a status entry for an untracked request id has just been
\* skipped while another command is tracked with its timeout armed, and
\* nothing was delivered to any caller.
C11_Witness ==
  /\ StatusUntracked \in log
  /\ \E d \in pendingCommands : cmd[d].timer
  /\ \A c \in CmdIds : delivered[c] = NoOutcome

\* The delays of the quadratic backoff: 10 s, 40 s, 90 s, then the maximum.
BackoffTable(k) ==
  CASE k = 1 -> 10000
    [] k = 2 -> 40000
    [] k = 3 -> 90000
    [] OTHER -> 120000

\* C12: with the rate-limited flag unset, the k-th reconnect armed since the
\* last successful open is armed with min(10000 * k^2, 120000) ms, that is
\* 10 s, 40 s, 90 s and 120 s from the fourth on.
C12_QuadraticBackoff ==
  [][(Len(delays') = Len(delays) + 1 /\ ~accountBlocked')
       => /\ reconnectTimer' = Min(10000 * Len(delays') * Len(delays'), 120000)
          /\ reconnectTimer' = BackoffTable(Len(delays'))
          /\ delays'[Len(delays')] = reconnectTimer']_vars

\* C12 witness: the fourth consecutive reconnect is pending with the
\* maximum delay, the flag unset.
C12_Witness ==
  Len(delays) = 4 /\ reconnectTimer = 120000 /\ ~accountBlocked

\* C13: the delays of the reconnects armed since the last successful open
\* never decrease from one reconnect to the next and never exceed the
\* 120000 ms maximum, whether or not the rate-limited flag has become set
\* in between.
C13_DelayMonotone ==
  /\ \A k \in 1..Len(delays) : delays[k] <= 120000
  /\ \A k \in 1..(Len(delays) - 1) : delays[k] <= delays[k + 1]
  /\ reconnectTimer <= 120000

\* C13 witness: reconnects armed before and after the rate-limited flag
\* became set: the first below the floor of a blocked account, the latest
\* with the flag set.
C13_Witness ==
  /\ Len(delays) >= 3
  /\ delays[1] < 60000
  /\ accountBlocked
  /\ reconnectTimer = delays[Len(delays)]

\* C14: whenever a reconnect timer is pending while the rate-limited flag is
\* set, the timer was armed with a delay of at least the 60000 ms floor.
C14_BlockedFloor ==
  (accountBlocked /\ reconnectTimer # 0) => reconnectTimer >= 60000

AttemptsInFlight == {i \in SockIds : sock[i].st \in {"token", "CONNECTING"}}

\* C16: while a connect attempt is in flight, getConnectionState() returns
\* 'connecting'.
C16_ConnectingVisible ==
  (AttemptsInFlight # {}) => GetConnectionState(Cur) = "connecting"

\* The handlers a caller can pass to connect(): the registered telemetry
\* handler, another function, nothing.
Handlers == {"onDataReceived", "otherHandler", "null"}

\* C17: connect() called while an attempt is in flight (isConnecting) or
\* after a shutdown (isStopping) changes nothing: no socket is created, no
\* reconnect is scheduled, and the registered handler, the flags, the
\* counters and the timers stay as they are; only the skipped call is
\* logged.
C17_ConnectSkipped ==
  (isConnecting \/ isStopping)
    => \A h \in Handlers : Connect(Cur, h, 0) = Logged(Cur, ConnectSkipped)

\* C17 witness: a connect() has just been skipped, once while an attempt
\* was in flight and a handler was registered.
C17_Witness ==
  /\ ConnectSkipped \in log
  /\ isConnecting
  /\ messageHandler = "onDataReceived"
  /\ AttemptsInFlight # {}

\* A connection fails or is lost in this step: the attempt fails before its
\* socket exists, the handshake fails (reported through the rejected connect
\* and through the close event), or the open socket closes.
FailureStep ==
  \/ \E i \in SockIds : AttemptFailed(i)
  \/ \E i \in SockIds, has429 \in BOOLEAN, closeSync \in BOOLEAN :
       HandshakeError(i, has429, closeSync)
  \/ \E i \in SockIds : sock[i].st = "OPEN" /\ SocketClose(i)

\* C18: after every successful open the reconnect attempt counter is 0 and
\* the rate-limited flag is clear, and every failed or lost connection (the
\* owner has not disconnected) increments the counter by exactly 1, so that
\* it equals the number of failures and losses since the last open.
C18_CounterCountsFailures ==
  [][/\ (\E i \in SockIds : SocketOpen(i))
          => reconnectAttempts' = 0 /\ ~accountBlocked'
     /\ (~callerStopped /\ FailureStep)
          => reconnectAttempts' = reconnectAttempts + 1]_vars

\* The sockets that have been created: their handshake has presented headers.
CreatedSockets == {i \in SockIds : sock[i].st \in {"CONNECTING", "OPEN", "CLOSING"}}

\* C19: the session identifier is the one generated by the constructor and
\* never changes, and every connect attempt presents it in both session
\* headers of its handshake, across any number of reconnects.
C19_SessionIdStable ==
  /\ [](/\ sessionId = RandomUUID
        /\ \A i \in CreatedSockets :
             /\ sock[i].headers.AppSessionId = sessionId
             /\ sock[i].headers.XSessionId = sessionId)
  /\ [][sessionId' = sessionId]_vars

\* C19 witness: after three reconnects without an open a new socket is
\* connecting and presents the session identifier of the constructor.
C19_Witness ==
  /\ Len(delays) >= 3
  /\ \E i \in SockIds :
       /\ sock[i].st = "CONNECTING"
       /\ sock[i].headers.XSessionId = RandomUUID

\* State t differs from state s at most in the call, the tracker entry, the
\* timeout and the outcome of the command with request id r, whose entry is
\* removed.
OnlyCommand(t, s, r) ==
  t = [s EXCEPT !.cmd[r] = t.cmd[r],
                !.pendingCommands = s.pendingCommands \ {r},
                !.delivered[r] = t.delivered[r]]

\* C20: settling a tracked command by a FINISHED or FAILED status, or its
\* timeout firing, changes that command's entry, timeout and outcome only:
\* the socket, the connection state, the reconnect counter and timer, the
\* rate-limited flag and every other command are as before (the message
\* handler that delivers the status restarts the watchdogs, nothing else).
C20_SettlementIsLocal ==
  \A r \in pendingCommands :
    /\ \A status \in AllStatuses :
         (status.requestId = r /\ status.state \in {FinishedCode, FailedCode})
           => /\ OnlyCommand(HandleStatus(Cur, status), Cur, r)
              /\ \A n \in SequenceNumbers :
                   LET message == StatusFrame(n, <<status>>)
                   IN OnlyCommand(
                        OnMessage(Cur, message),
                        SendAck(ResetPingWatchdog(ResetConnectionWatchdog(Cur)),
                                AckMessage(ParsePushMessage(message))), r)
    /\ cmd[r].timer
         => OnlyCommand(CommandTimeoutFired([Cur EXCEPT !.cmd[r].timer = FALSE], r),
                        Cur, r)

\* C20 witness: the timeout of a command has just fired while another
\* command is tracked with its timeout armed and the connection is open,
\* reported as connected and watched.
C20_Witness ==
  \E c, d \in CmdIds :
    /\ delivered[c].kind = "timeout"
    /\ d \in pendingCommands /\ cmd[d].timer
    /\ IsConnected(Cur) /\ connectionState = "connected"
    /\ connectionWatchdog /\ reconnectTimer = 0

\* The command frames of call c among the frames transmitted by this step.
CommandFramesOf(c) ==
  {k \in 1..Len(sent) : sent[k].kind = "command" /\ sent[k].n = c}

\* C21: a sendCommand call that finds no open socket, and none within its
\* bounded wait, fails with 'WebSocket connection not available for
\* command' and registers nothing: while it waits and when it gives up,
\* the tracker holds no entry for it, no timeout is armed for it and no
\* frame of it has been transmitted.
C21_UnavailableRegistersNothing ==
  \A c \in CmdIds :
    /\ cmd[c].pc \in {"awaitConnect", "polling"}
         => c \notin pendingCommands /\ ~cmd[c].timer /\ CommandFramesOf(c) = {}
    /\ delivered[c].kind = "unavailable"
         => /\ delivered[c].error = <<"WebSocket connection not available for command">>
            /\ c \notin pendingCommands /\ ~cmd[c].timer
            /\ CommandFramesOf(c) = {}
            /\ ~IsConnected(Cur)

\* C21 witness: a call has just failed as unavailable while the command of
\* another call is tracked with its timeout armed.
C21_Witness ==
  \E c, d \in CmdIds :
    /\ delivered[c].kind = "unavailable"
    /\ d \in pendingCommands /\ cmd[d].timer
    /\ sent = <<>>

\* C22: a status entry for a tracked request id whose state is neither
\* FINISHED nor FAILED (a state of STATE_MAP, or a code outside it) takes no
\* action: the tracker entry, the promise and the armed timeout of the
\* command, and everything else, are left as they were.
C22_NonTerminalNoAction ==
  \A r \in pendingCommands :
    \A status \in AllStatuses :
      (status.requestId = r /\ status.state \notin {FinishedCode, FailedCode})
        => HandleStatus(Cur, status) = Cur

\* C23: on an open connection both watchdogs are armed together (by the open
\* and by every inbound frame), and the window of the ping watchdog is the
\* shorter one, so that on a silent connection it is the ping watchdog that
\* expires first and a ping is sent before the connection watchdog gives
\* the connection up.
C23_PingBeforeTimeout ==
  (IsConnected(Cur) /\ connectionWatchdog /\ pingWatchdog)
    => PING_INTERVAL < INITIAL_WATCHDOG_TIMEOUT

\* C24: whenever the client has no open socket, after a close event or
\* after disconnect(), neither the connection watchdog nor the ping watchdog
\* is armed: with every socket either not open yet, closed, or closing since
\* disconnect() has closed it, no watchdog is pending.
C24_NoWatchdogWithoutSocket ==
  (\A i \in SockIds : sock[i].st # "OPEN" /\ ~CloseDue(i))
    => ~connectionWatchdog /\ ~pingWatchdog

\* The events whose handlers ask for a reconnect: a failed attempt (the catch
\* block of connect) and the close event of a socket.
ReconnectRequested ==
  \/ \E i \in SockIds : AttemptFailed(i)
  \/ \E i \in SockIds, has429 \in BOOLEAN, closeSync \in BOOLEAN :
       HandshakeError(i, has429, closeSync)
  \/ \E i \in SockIds : SocketClose(i)

AckKind(f) ==
  CASE f.field = "vepUpdates" -> "acknowledgeVepUpdatesByVin"
    [] f.field = "apptwinCommandStatusUpdatesByVin" ->
         "acknowledgeApptwinCommandStatusUpdateByVin"
    [] f.field = "serviceStatusUpdates" -> "acknowledgeServiceStatusUpdate"
    [] f.field = "userDataUpdate" -> "acknowledgeUserDataUpdate"

\* What the handling of a frame that has arrived on socket i must transmit:
\* the acknowledgment of its kind with its sequence number on that socket,
\* and nothing when the frame has no sequence number.
AckOn(i, f) ==
  IF f.sequenceNumber # 0
  THEN <<[sock |-> i, kind |-> AckKind(f), n |-> f.sequenceNumber]>>
  ELSE <<>>

\* C26: for every telemetry frame and every status frame that arrives on an
\* open socket with sequence number n, exactly one acknowledgment of the
\* matching kind with the same n is transmitted on that socket, whatever
\* the sink or the tracker had to do, and none is transmitted when the frame
\* has no sequence number.
C26_AckPerNumberedFrame ==
  \A i \in OpenSockets :
    \A f \in TelemetryFrames \cup StatusFrames :
      OnMessage(Cur, f).sent = AckOn(i, f)

\* C27: for every service-status frame and every user-data frame, as the
\* parser classifies it, that arrives with sequence number n on the open
\* socket the client holds, the acknowledgment of its kind with the same n
\* is constructed and transmitted on that socket.
C27_ServiceAck ==
  \A i \in OpenSockets :
    ws = i =>
      \A f \in ServiceFrames :
        /\ ParsePushMessage(f).msg \in {"service_status_updates", "user_data_update"}
        /\ OnMessage(Cur, f).sent = AckOn(i, f)

\* C28: a frame that decodes to a variant the client has no case for, on a
\* socket that emits frames, transmits no acknowledgment, raises no error
\* and changes neither the tracker, the calls and their timeouts, the
\* connection state, the sockets nor the reconnect state: what the message
\* handler leaves is the state before with the watchdogs restarted and the
\* 'Unhandled message type' line logged.
C28_UnknownVariantIgnored ==
  (\E i \in SockIds : Receiving(i))
    => \A f \in UnknownFrames :
         LET t == OnMessage(Cur, f)
         IN /\ t.sent = <<>>
            /\ ProcessingError \notin t.log
            /\ t = Logged(ResetPingWatchdog(ResetConnectionWatchdog(Cur)),
                          UnhandledType)

\* C28 witness: a frame of an unknown variant has just been handled while a
\* command is tracked: nothing was transmitted and nothing was delivered.
C28_Witness ==
  /\ UnhandledType \in log
  /\ sent = <<>>
  /\ pendingCommands # {}
  /\ \A c \in CmdIds : delivered[c] = NoOutcome

\* The state the next event finds after a step has left t: the outputs of
\* the step are gone.
Following(t) ==
  [t EXCEPT !.delivered = [c \in CmdIds |-> NoOutcome],
            !.log = {}, !.sent = <<>>]

\* C29: a frame that fails to decode, on a socket that emits frames, is
\* dropped alone: no acknowledgment, no call of the telemetry sink, no
\* settlement, the sockets and this.ws as before, no reconnect scheduled,
\* the failure logged in the catch block of _processMessage and nothing
\* else changed but the restarted watchdogs; and every frame that arrives
\* next is handled as it would have been without the dropped one.
C29_DecodeFailureDropsFrame ==
  (\E i \in SockIds : Receiving(i))
    => LET t == OnMessage(Cur, Undecodable)
       IN /\ t.sent = <<>>
          /\ HandlerCalled \notin t.log
          /\ t.delivered = [c \in CmdIds |-> NoOutcome]
          /\ t.pendingCommands = pendingCommands /\ t.cmd = cmd
          /\ t.sock = sock /\ t.ws = ws
          /\ t.reconnectTimer = reconnectTimer
          /\ t.reconnectAttempts = reconnectAttempts
          /\ t = Logged(ResetPingWatchdog(ResetConnectionWatchdog(Cur)),
                        ProcessingError)
          /\ \A f \in Frames : OnMessage(Following(t), f) = OnMessage(Cur, f)

\* C29 witness: a frame that does not decode has just been dropped on the
\* open socket of a client that tracks a command: the socket is open, the
\* command is tracked, no reconnect is pending.
C29_Witness ==
  /\ ProcessingError \in log
  /\ IsConnected(Cur)
  /\ pendingCommands # {}
  /\ reconnectTimer = 0
  /\ sent = <<>>

\* A frame arrives in this step.
FrameArrives ==
  \/ \E i \in SockIds, message \in ArrivingFrames : Message(i, message)
  \/ \E i \in SockIds, message \in ArrivingFrames \cap TelemetryFrames :
       MessageSlow(i, message)

\* The acknowledgments among the frames the last step has transmitted.
AcksSent == {k \in 1..Len(sent) : sent[k].kind # "command"}

\* C30: inbound frames are dispatched one after the other: the handling of
\* a frame does not begin while the handling of an earlier frame has not
\* completed, and so no acknowledgment is transmitted while the
\* acknowledgment of an earlier frame is still to come, however slow the
\* telemetry sink is.
C30_SequentialDispatch ==
  [][FrameArrives => /\ dispatching = <<>>
                     /\ AcksSent' # {} => dispatching' = <<>>]_vars

\* The sockets the acknowledgments among the frames in `frames` went to.
AckSockets(frames) ==
  {frames[k].sock : k \in {j \in 1..Len(frames) : frames[j].kind # "command"}}

\* C31: an acknowledgment is transmitted on the socket its frame arrived on
\* and on no other: the handling of a frame of socket i sends to socket i
\* only, and a suspended handling that resumes sends to the socket its frame
\* came from only, not to the socket that has replaced it.
C31_AckOnArrivalSocket ==
  /\ \A i \in SockIds :
       Receiving(i) =>
         \A f \in Frames : AckSockets(OnMessage(Cur, f).sent) \subseteq {i}
  /\ \A k \in 1..Len(dispatching) :
       AckSockets(ResumeMessage(Cur, k).sent) \subseteq {dispatching[k].sock}

\* The calls the sink must get for a list of sub-updates: one for each
\* sub-update whose attribute map could be extracted, in the order of the
\* frame, with the vehicle, the map and the full/partial flag.
RECURSIVE HandlerCalls(_)
HandlerCalls(vins) ==
  IF vins = <<>>
  THEN <<>>
  ELSE (IF Head(vins).throws = "extract"
        THEN <<>>
        ELSE <<[vin |-> Head(vins).vin,
                vehicleData |-> ExtractVehicleData(Head(vins)),
                fullUpdate |-> Head(vins).fullUpdate]>>)
       \o HandlerCalls(Tail(vins))

\* The frame f with sub-updates that make nothing throw.
Quiet(f) ==
  [f EXCEPT !.vins = [k \in 1..Len(@) |-> [@[k] EXCEPT !.throws = "none"]]]

\* C32: for a telemetry frame that arrives while a sink is registered, the
\* sink is called exactly once for each vehicle of the frame whose attribute
\* map could be extracted, with the vehicle, the map and the full/partial
\* flag; a sub-update that throws, in the extraction or in the sink, takes
\* away neither the calls for the vehicles after it nor the acknowledgment:
\* what is transmitted is what the same frame transmits when nothing throws,
\* and it is the acknowledgment of the frame when the frame has a sequence
\* number and the client holds an open socket.
C32_OneCallPerVehicle ==
  \A i \in SockIds :
    Receiving(i) /\ messageHandler # "null" =>
      \A f \in TelemetryFrames :
        LET t == OnMessage(Cur, f)
        IN /\ t.calls = HandlerCalls(f.vins)
           /\ t.sent = OnMessage(Cur, Quiet(f)).sent
           /\ f.sequenceNumber # 0 /\ IsConnected(Cur) =>
                t.sent = AckOn(ws, f)

\* A frame for two vehicles has arrived whose first sub-update has thrown:
\* the sink has been called for the second vehicle and the acknowledgment
\* has been transmitted.
C32_Witness ==
  /\ UpdateError \in log
  /\ \E k \in 1..Len(calls) : calls[k].vin = "VIN2" /\ ~calls[k].fullUpdate
  /\ \E k \in 1..Len(sent) : sent[k].kind = "acknowledgeVepUpdatesByVin"

\* message[key] where message is a string: a string has none of the
\* properties msg, vepUpdates.
StringProperty(str, key) == Undefined

\* The function MercedesAPI.connectWebSocket registers as this.messageHandler,
\* applied to a call the socket client makes: its only parameter, message,
\* is the first argument of the call, the vehicle id.  It gives the calls of
\* onDataReceived it makes, one for each entry of message.vepUpdates.updates
\* when message.msg is 'vepUpdates'.
ApiMessageHandler(call) ==
  LET message == call.vin
  IN IF /\ StringProperty(message, "msg").present
        /\ StringProperty(message, "vepUpdates").present
     THEN HandlerCalls(StringProperty(message, "vepUpdates").vins)
     ELSE <<>>

\* The calls of onDataReceived that a sequence of calls of
\* this.messageHandler makes.
RECURSIVE OnDataReceived(_)
OnDataReceived(handlerCalls) ==
  IF handlerCalls = <<>>
  THEN <<>>
  ELSE ApiMessageHandler(Head(handlerCalls)) \o OnDataReceived(Tail(handlerCalls))

\* C33: with the sink registered through MercedesAPI.connectWebSocket, a
\* telemetry frame in which nothing throws results in exactly one call of
\* onDataReceived for each of its vehicles, with the vehicle, the attribute
\* map and the full/partial flag.
C33_SinkCalledPerVehicle ==
  \A i \in SockIds :
    Receiving(i) /\ messageHandler # "null" =>
      \A f \in {g \in TelemetryFrames : g = Quiet(g)} :
        OnDataReceived(OnMessage(Cur, f).calls) = HandlerCalls(f.vins)

\* C34: a command frame is handed to the socket only after its call has its
\* tracker entry and its armed timeout: in the step that transmits the frame
\* of a call, the request id of the call is in the tracker and the timeout
\* of the call is armed, so that a response that arrives at once finds the
\* entry.
C34_TrackedBeforeSent ==
  \A k \in 1..Len(sent) :
    sent[k].kind = "command" =>
      /\ sent[k].n \in pendingCommands
      /\ cmd[sent[k].n].pc = "pending"
      /\ cmd[sent[k].n].timer

\* A command frame has been transmitted on the socket the client holds while
\* another call is tracked: its entry and its timeout are there.
C34_Witness ==
  /\ \E k \in 1..Len(sent) :
       /\ sent[k].kind = "command" /\ sent[k].sock = ws
       /\ sent[k].n \in pendingCommands /\ cmd[sent[k].n].timer
  /\ Cardinality(pendingCommands) = 2

\* C35: in every state getConnectionState() returns 'connected' exactly when
\* the socket the client holds is open.
C35_StateMatchesSocket ==
  (\A i \in SockIds : ~CloseDue(i)) =>
    ((connectionState = "connected") <=> IsConnected(Cur))

\* C36: whenever the socket the client holds is open, the connection
\* watchdog is armed.
C36_WatchdogArmedWhileOpen ==
  IsConnected(Cur) => connectionWatchdog

AttemptsStarting == {i \in SockIds : sock[i].st = "token"}

\* C38: while a reconnect timer is pending no connect attempt is started: in
\* a step that begins and ends with the timer pending, no attempt is added
\* to those that wait for the access token.
C38_BackoffRespected ==
  [][reconnectTimer # 0 /\ reconnectTimer' # 0 =>
       Cardinality(AttemptsStarting') <= Cardinality(AttemptsStarting)]_vars

\* C39: when the transmission of the command frame fails, the promise of
\* sendCommand is rejected at once, the timeout of the call is cancelled and
\* its tracker entry is removed: for every call that finds the socket open
\* and whose send() throws, the call is settled with an error, its timeout
\* is not armed and its request id is not in the tracker.
C39_SendFailureRejects ==
  IsConnected(Cur) =>
    \A c \in CmdIds :
      cmd[c].pc = "idle" =>
        LET t == RegisterSendThrows(Cur, c)
        IN /\ t.delivered[c] # NoOutcome
           /\ ~t.cmd[c].timer
           /\ c \notin t.pendingCommands

\* The outcomes that a terminal status entry or the timeout of a call
\* delivers.
TrackedOutcomes == {c \in CmdIds : delivered[c].kind \in {"resolved", "failed", "timeout"}}

\* C40: the 'close' handler, the disconnect forced by the connection
\* watchdog and disconnect() leave the tracker, the calls and their timeouts
\* as they are and deliver no outcome; and a call leaves the tracker only in
\* a step that delivers to it the outcome of a terminal status entry or of
\* its own timeout.
C40_PendingSurviveDisconnect ==
  /\ [](\A t \in {OnClose(Cur), Disconnect(Cur), HandleConnectionTimeout(Cur)} :
          /\ t.pendingCommands = pendingCommands
          /\ t.cmd = cmd
          /\ \A c \in CmdIds : t.delivered[c] = NoOutcome)
  /\ [][Cardinality(pendingCommands) - Cardinality(pendingCommands')
          <= Cardinality(TrackedOutcomes')]_vars

\* A call is tracked with its timeout armed after the connection is gone:
\* no socket is left and the client is disconnected.
C40_Witness ==
  /\ \E c \in pendingCommands : cmd[c].pc = "pending" /\ cmd[c].timer
  /\ \A i \in SockIds : sock[i].st = "free"
  /\ connectionState = "disconnected"

====
